---- MODULE Spec2Model ----
(***************************************************************************)
(* Model of the useTownPassAuth hook (src/src/hooks/useTownPassAuth.ts):   *)
(* the identity request over several host channels, its listeners, its     *)
(* deadline timer, cleanup and reset (Spec, LiveSpec), and the normalizer  *)
(* parseIncoming on its own (ParseSpec).                                   *)
(***************************************************************************)
EXTENDS Integers, Sequences, FiniteSets, TLC

(***************************************************************************)
(* Bounds of the model                                                     *)
(***************************************************************************)
MaxRequests == 2
TimeStep == 1000
MaxNow == 3000
ArgTimeout == 1000
OptTimeout == 2000
MaxLogins == 2
MaxLocationCalls == 2
LocationStep == 5000
LocationMaxNow == 20000
MaxUserIdSets == 2
MaxPetFetches == 3

(***************************************************************************)
(* JavaScript values.  A string is either "str" (text that is not JSON) or *)
(* "json" (the text JSON.stringify(j)).                                    *)
(***************************************************************************)
Undef == [t |-> "undef"]
Null == [t |-> "null"]
Str(x) == [t |-> "str", s |-> x]
Json(v) == [t |-> "json", j |-> v]
Num(x) == [t |-> "num", n |-> x]
Obj(fields) == [t |-> "obj", f |-> fields]
\* The outcome of an evaluation that raises a TypeError.
Throws == [t |-> "throws"]
Bool(x) == [t |-> "bool", b |-> x]

Nullish(v) == v.t \in {"undef", "null"}
Truthy(v) ==
  /\ ~Nullish(v)
  /\ ~(v.t = "str" /\ v.s = "")
  /\ ~(v.t = "num" /\ v.n = 0)
  /\ ~(v.t = "bool" /\ ~v.b)
IsString(v) == v.t \in {"str", "json"}
TypeofObject(v) == v.t \in {"obj", "null"}
\* v?.k
Get(v, k) == IF v.t = "obj" /\ k \in DOMAIN v.f THEN v.f[k] ELSE Undef
\* v.k
Dot(v, k) == IF Nullish(v) \/ v = Throws THEN Throws ELSE Get(v, k)
Coalesce(a, b) == IF Nullish(a) THEN b ELSE a
IsStr(v, x) == v.t = "str" /\ v.s = x

tryParse(v) == IF v.t = "json" THEN v.j ELSE Null

\* Variant: the bare object with an id is tried before the detail wrapper.
parseIncoming_bareBeforeDetail(raw) ==
  IF ~Truthy(raw) THEN Null
  ELSE
    LET maybe == IF IsString(raw) THEN tryParse(raw) ELSE Null
        payload == IF IsString(raw) /\ maybe # Null THEN maybe ELSE raw
        type == Get(payload, "type")
        puser == Get(payload, "user")
        detail == Get(payload, "detail")
    IN
    IF IsStr(Get(payload, "source"), "townpass")
         /\ (IsStr(type, "user") \/ IsStr(type, "user_info"))
      THEN Coalesce(Coalesce(Dot(payload, "payload"), Dot(payload, "user")), Null)
    ELSE IF IsStr(type, "townpass:user") /\ Truthy(puser) THEN Dot(payload, "user")
    ELSE IF (IsStr(type, "TOWNPASS_USER") \/ IsStr(type, "TOWNPASS_USER_INFO"))
              /\ Truthy(puser)
      THEN Dot(payload, "user")
    ELSE IF Truthy(Get(payload, "townpass_user")) THEN Dot(payload, "townpass_user")
    ELSE IF Truthy(puser) /\ TypeofObject(Dot(payload, "user"))
              /\ Truthy(Dot(Dot(payload, "user"), "id"))
      THEN Dot(payload, "user")
    ELSE IF IsStr(Get(payload, "name"), "userinfo") /\ IsString(Dot(payload, "data"))
      THEN Coalesce(tryParse(Dot(payload, "data")), Null)
    ELSE IF IsStr(Get(payload, "name"), "userinfo") /\ TypeofObject(Dot(payload, "data"))
      THEN Dot(payload, "data")
    ELSE IF TypeofObject(payload) /\ Truthy(Dot(payload, "id")) THEN payload
    ELSE IF Truthy(detail)
              /\ (Truthy(Dot(Dot(payload, "detail"), "user"))
                    \/ Truthy(Dot(Dot(payload, "detail"), "townpass_user")))
      THEN Coalesce(Dot(Dot(payload, "detail"), "user"),
                    Dot(Dot(payload, "detail"), "townpass_user"))
    ELSE Null

\* Variant: a userinfo envelope without data is returned whole.
parseIncoming_userinfoWhole(raw) ==
  IF ~Truthy(raw) THEN Null
  ELSE
    LET maybe == IF IsString(raw) THEN tryParse(raw) ELSE Null
        payload == IF IsString(raw) /\ maybe # Null THEN maybe ELSE raw
        type == Get(payload, "type")
        puser == Get(payload, "user")
        detail == Get(payload, "detail")
    IN
    IF IsStr(Get(payload, "source"), "townpass")
         /\ (IsStr(type, "user") \/ IsStr(type, "user_info"))
      THEN Coalesce(Coalesce(Dot(payload, "payload"), Dot(payload, "user")), Null)
    ELSE IF IsStr(type, "townpass:user") /\ Truthy(puser) THEN Dot(payload, "user")
    ELSE IF (IsStr(type, "TOWNPASS_USER") \/ IsStr(type, "TOWNPASS_USER_INFO"))
              /\ Truthy(puser)
      THEN Dot(payload, "user")
    ELSE IF Truthy(Get(payload, "townpass_user")) THEN Dot(payload, "townpass_user")
    ELSE IF Truthy(puser) /\ TypeofObject(Dot(payload, "user"))
              /\ Truthy(Dot(Dot(payload, "user"), "id"))
      THEN Dot(payload, "user")
    ELSE IF IsStr(Get(payload, "name"), "userinfo") /\ IsString(Dot(payload, "data"))
      THEN Coalesce(tryParse(Dot(payload, "data")), Null)
    ELSE IF IsStr(Get(payload, "name"), "userinfo") /\ TypeofObject(Dot(payload, "data"))
      THEN Coalesce(Dot(payload, "data"), payload)
    ELSE IF Truthy(detail)
              /\ (Truthy(Dot(Dot(payload, "detail"), "user"))
                    \/ Truthy(Dot(Dot(payload, "detail"), "townpass_user")))
      THEN Coalesce(Dot(Dot(payload, "detail"), "user"),
                    Dot(Dot(payload, "detail"), "townpass_user"))
    ELSE IF TypeofObject(payload) /\ Truthy(Dot(payload, "id")) THEN payload
    ELSE Null

parseIncoming(raw) ==
  IF ~Truthy(raw) THEN Null
  ELSE
    LET maybe == IF IsString(raw) THEN tryParse(raw) ELSE Null
        payload == IF IsString(raw) /\ maybe # Null THEN maybe ELSE raw
        type == Get(payload, "type")
        puser == Get(payload, "user")
        detail == Get(payload, "detail")
    IN
    IF IsStr(Get(payload, "source"), "townpass")
         /\ (IsStr(type, "user") \/ IsStr(type, "user_info"))
      THEN Coalesce(Coalesce(Dot(payload, "payload"), Dot(payload, "user")), Null)
    ELSE IF IsStr(type, "townpass:user") /\ Truthy(puser) THEN Dot(payload, "user")
    ELSE IF (IsStr(type, "TOWNPASS_USER") \/ IsStr(type, "TOWNPASS_USER_INFO"))
              /\ Truthy(puser)
      THEN Dot(payload, "user")
    ELSE IF Truthy(Get(payload, "townpass_user")) THEN Dot(payload, "townpass_user")
    ELSE IF Truthy(puser) /\ TypeofObject(Dot(payload, "user"))
              /\ Truthy(Dot(Dot(payload, "user"), "id"))
      THEN Dot(payload, "user")
    ELSE IF IsStr(Get(payload, "name"), "userinfo") /\ IsString(Dot(payload, "data"))
      THEN Coalesce(tryParse(Dot(payload, "data")), Null)
    ELSE IF IsStr(Get(payload, "name"), "userinfo") /\ TypeofObject(Dot(payload, "data"))
      THEN Dot(payload, "data")
    ELSE IF Truthy(detail)
              /\ (Truthy(Dot(Dot(payload, "detail"), "user"))
                    \/ Truthy(Dot(Dot(payload, "detail"), "townpass_user")))
      THEN Coalesce(Dot(Dot(payload, "detail"), "user"),
                    Dot(Dot(payload, "detail"), "townpass_user"))
    ELSE IF TypeofObject(payload) /\ Truthy(Dot(payload, "id")) THEN payload
    ELSE Null

(***************************************************************************)
(* Handlers.  Every requestTownPassUser call creates fresh closures; a     *)
(* handler is identified by its kind and the call (req) that created it.   *)
(***************************************************************************)
NoFn == [kind |-> "none", req |-> 0]
HostFn == [kind |-> "host", req |-> 0]
Handler(k, r) == [kind |-> k, req |-> r]
IsFunction(h) == h.kind # "none"

NoError == "null"
TimeoutError == "TownPass authentication timeout"
DefaultTimeout == 3000
NoArg == -1
\* The event React passes to an onClick handler as its first argument.
ClickEvent == -2

VARIABLES
  opts,                \* the options the hook was created with
  host,                \* the globals the host exposes on window
  user, isLoading, error, isAuthenticated,
  timerRef, listenerRef, channelListenerRef, cleanedRef,
  messageListeners,    \* window 'message' listeners, in attachment order
  customListeners,     \* window 'townpass:user' listeners
  slot,                \* window.__onTownPassUser
  flutterListeners,    \* flutterObject addEventListener('message') registry
  flutterOnmessage,    \* flutterObject.onmessage
  channelListeners,    \* townpass_message_channel registry
  channelOnmessage,    \* townpass_message_channel.onmessage
  timers,              \* armed window timers
  nextTimer,           \* the id the next setTimeout returns
  now,                 \* the clock, in ms
  reqCount,            \* number of requestTownPassUser calls so far
  phase,               \* how the latest request stands
  firstAccepted,       \* the identity that resolved the latest request
  events,              \* the trace of the latest requestTownPassUser call
  startedAt, lastArg,  \* when, and with which argument, it was called
  supersededReqs,      \* calls that were open when the next call started
  resetReqs,           \* calls that were open when reset was called
  acceptedBy,          \* calls one of whose handlers accepted a payload
  firedFor,            \* calls whose deadline callback ran
  input, output,       \* an input of parseIncoming and what it returned
  fetches,             \* the POSTs of loginWithTownPass that await their answer
  sent,                \* number of POSTs sent to the auth endpoint so far
  loginCount,          \* number of loginWithTownPass calls so far
  effectDeps,          \* the dependencies TownPassDemo's login effect last ran with
  attempts,            \* login calls of that effect since the last request,
                       \* delivery or reset
  resetAtLogin,        \* number of loginWithTownPass calls made before the
                       \* last reset
  \* useLocation
  location, loading, locationError, locationListenerRef,
  locationTimers,      \* the armed timers of the getLocation calls
  promises,            \* how the promise of each getLocation call stands
  firedLocation,       \* getLocation calls whose timer callback ran
  \* UserProvider
  userId, pet, petLoading,
  petFetches,          \* the getUserPet calls that await their answer
  petFetchCount,       \* number of getUserPet calls so far
  userIdSets,          \* number of setUserId calls so far
  userEffectDeps       \* the userId the fetch effect last ran with

vars == <<opts, host, user, isLoading, error, isAuthenticated, timerRef,
          listenerRef, channelListenerRef, cleanedRef, messageListeners,
          customListeners, slot, flutterListeners, flutterOnmessage,
          channelListeners, channelOnmessage, timers, nextTimer, now,
          reqCount, phase, firstAccepted, events, startedAt, lastArg,
          supersededReqs, resetReqs, acceptedBy, firedFor, input, output,
          fetches, sent, loginCount, effectDeps, attempts, resetAtLogin,
          location, loading, locationError, locationListenerRef,
          locationTimers, promises, firedLocation, userId, pet, petLoading,
          petFetches, petFetchCount, userIdSets, userEffectDeps>>

locationVars == <<location, loading, locationError, locationListenerRef,
                  locationTimers, promises, firedLocation>>

userVars == <<userId, pet, petLoading, petFetches, petFetchCount, userIdSets,
              userEffectDeps>>

otherVars == <<locationVars, userVars>>

(***************************************************************************)
(* The state the handlers read and write, as one record; log is the debug  *)
(* trace the running handler has emitted so far.                           *)
(***************************************************************************)
St ==
  [user |-> user, isLoading |-> isLoading, error |-> error,
   isAuthenticated |-> isAuthenticated, timerRef |-> timerRef,
   listenerRef |-> listenerRef, channelListenerRef |-> channelListenerRef,
   cleanedRef |-> cleanedRef, messageListeners |-> messageListeners,
   customListeners |-> customListeners, slot |-> slot,
   flutterListeners |-> flutterListeners, flutterOnmessage |-> flutterOnmessage,
   channelListeners |-> channelListeners, channelOnmessage |-> channelOnmessage,
   timers |-> timers, nextTimer |-> nextTimer, fetches |-> fetches,
   sent |-> sent, log |-> <<>>]

Commit(s) ==
  /\ user' = s.user
  /\ isLoading' = s.isLoading
  /\ error' = s.error
  /\ isAuthenticated' = s.isAuthenticated
  /\ timerRef' = s.timerRef
  /\ listenerRef' = s.listenerRef
  /\ channelListenerRef' = s.channelListenerRef
  /\ cleanedRef' = s.cleanedRef
  /\ messageListeners' = s.messageListeners
  /\ customListeners' = s.customListeners
  /\ slot' = s.slot
  /\ flutterListeners' = s.flutterListeners
  /\ flutterOnmessage' = s.flutterOnmessage
  /\ channelListeners' = s.channelListeners
  /\ channelOnmessage' = s.channelOnmessage
  /\ timers' = s.timers
  /\ nextTimer' = s.nextTimer
  /\ fetches' = s.fetches
  /\ sent' = s.sent

Ev(op, ch, req, v) == [op |-> op, ch |-> ch, req |-> req, v |-> v]
Log(s, op, ch, req) == [s EXCEPT !.log = Append(@, Ev(op, ch, req, Undef))]

Remove(seq, h) == SelectSeq(seq, LAMBDA x : x # h)
Contains(seq, h) == \E i \in 1..Len(seq) : seq[i] = h

(***************************************************************************)
(* cleanup                                                                 *)
(***************************************************************************)
clearTimeout(ts, id) == {t \in ts : t.id # id}

\* Variant: the ref is cleared but window.clearTimeout is not called.
cleanupTimer_keepsArmed(s) == [s EXCEPT !.timerRef = 0]

cleanupTimer(s) ==
  IF s.timerRef # 0
    THEN [s EXCEPT !.timers = clearTimeout(@, s.timerRef), !.timerRef = 0]
    ELSE s

cleanupMessage(s) ==
  IF s.listenerRef # NoFn
    THEN [s EXCEPT !.messageListeners = Remove(@, s.listenerRef),
                   !.listenerRef = NoFn]
    ELSE s

cleanupChannel(s) ==
  LET s1 ==
        IF s.channelListenerRef # NoFn /\ host.channel # "absent"
          THEN IF host.channel = "listener"
                 THEN [s EXCEPT !.channelListeners = Remove(@, s.channelListenerRef)]
                 ELSE IF s.channelOnmessage = s.channelListenerRef
                        THEN [s EXCEPT !.channelOnmessage = NoFn]
                        ELSE s
          ELSE s
  IN [s1 EXCEPT !.channelListenerRef = NoFn]

cleanupSlot(s) ==
  IF IsFunction(s.slot) THEN [s EXCEPT !.slot = NoFn] ELSE s

cleanup(s) ==
  LET s0 == Log([s EXCEPT !.cleanedRef = TRUE], "cleanup", "", 0)
  IN cleanupSlot(cleanupChannel(cleanupMessage(cleanupTimer(s0))))

(***************************************************************************)
(* handleIncomingRaw and the five handlers                                 *)
(***************************************************************************)
\* Variant: isLoading is cleared whether or not the payload is recognized.
handleIncomingRaw_alwaysDone(s, raw) ==
  LET parsed == parseIncoming(raw)
  IN IF Truthy(parsed)
       THEN [ok |-> TRUE,
             s |-> [s EXCEPT !.user = parsed, !.isLoading = FALSE, !.error = NoError,
                             !.log = Append(@, Ev("accept", "", 0, parsed))]]
       ELSE [ok |-> FALSE, s |-> [s EXCEPT !.isLoading = FALSE]]

\* The state after the call, and the boolean it returns.
handleIncomingRaw(s, raw) ==
  LET parsed == parseIncoming(raw)
  IN IF Truthy(parsed)
       THEN [ok |-> TRUE,
             s |-> [s EXCEPT !.user = parsed, !.isLoading = FALSE, !.error = NoError,
                             !.log = Append(@, Ev("accept", "", 0, parsed))]]
       ELSE [ok |-> FALSE, s |-> s]

\* Variant: a handler that accepts without calling cleanup.
acceptThenCleanup_noCleanup(s, raw) == handleIncomingRaw(s, raw).s

\* const ok = handleIncomingRaw(raw); if (ok) cleanup();
acceptThenCleanup(s, raw) ==
  LET r == handleIncomingRaw(s, raw)
  IN IF r.ok THEN cleanup(r.s) ELSE r.s

\* What each handler hands to handleIncomingRaw for the argument it is called
\* with (Undef when it hands nothing on).
genericListener(ev) == Get(ev, "data")

customListener(ev) == Get(ev, "detail")

onTownPassUser(payload) == payload

\* Variant: only the userid reply is handled.
flutterHandler_useridOnly(ev) ==
  LET d0 == Coalesce(Get(ev, "data"), ev)
      data == IF d0.t = "json" THEN d0.j ELSE d0
  IN IF IsStr(Get(data, "name"), "userid") /\ Truthy(Get(data, "data"))
       THEN Obj([id |-> Get(data, "data")])
       ELSE Undef

flutterHandler(ev) ==
  LET d0 == Coalesce(Get(ev, "data"), ev)
      data == IF d0.t = "json" THEN d0.j ELSE d0
      name == Get(data, "name")
      inner == Get(data, "data")
  IN IF IsStr(name, "userinfo") /\ Truthy(inner) THEN inner
     ELSE IF IsStr(name, "userid") /\ Truthy(inner) THEN Obj([id |-> inner])
     ELSE Undef

channelHandler(ev) ==
  LET data == Coalesce(Get(ev, "data"), ev)
  IN IF IsString(data) THEN Coalesce(tryParse(data), data) ELSE data

handed(h, arg) ==
  CASE h.kind = "generic" -> genericListener(arg)
    [] h.kind = "custom" -> customListener(arg)
    [] h.kind = "slot" -> onTownPassUser(arg)
    [] h.kind = "flutter" -> flutterHandler(arg)
    [] h.kind = "channel" -> channelHandler(arg)
    [] OTHER -> Undef

\* One run of handler h: its entry in the trace, then
\* const ok = handleIncomingRaw(...); if (ok) cleanup();
call(s, h, arg) == acceptThenCleanup(Log(s, "recv", h.kind, h.req), handed(h, arg))

(***************************************************************************)
(* Event dispatch by the host: the handlers attached to a channel run in   *)
(* attachment order; one detached by an earlier handler does not run.      *)
(***************************************************************************)
attachedTo(s, ch) ==
  CASE ch = "message" -> s.messageListeners
    [] ch = "custom" -> s.customListeners
    [] ch = "slot" -> IF s.slot.kind = "slot" THEN <<s.slot>> ELSE <<>>
    [] ch = "flutter" -> IF host.flutter = "listener" THEN s.flutterListeners
                         ELSE IF s.flutterOnmessage.kind = "flutter" THEN <<s.flutterOnmessage>>
                         ELSE <<>>
    [] ch = "channel" -> IF host.channel = "listener" THEN s.channelListeners
                         ELSE IF s.channelOnmessage.kind = "channel" THEN <<s.channelOnmessage>>
                         ELSE <<>>
    [] OTHER -> <<>>

\* What the handlers of channel ch are called with when the host sends p.
argumentOn(ch, p) ==
  CASE ch = "custom" -> Obj([detail |-> p])
    [] ch = "slot" -> p
    [] OTHER -> Obj([data |-> p])

RECURSIVE dispatch(_, _, _, _)
dispatch(s, ch, hs, arg) ==
  IF hs = <<>> THEN s
  ELSE dispatch(IF Contains(attachedTo(s, ch), Head(hs)) THEN call(s, Head(hs), arg) ELSE s,
                ch, Tail(hs), arg)

deliver(s, ch, p) == dispatch(s, ch, attachedTo(s, ch), argumentOn(ch, p))

(***************************************************************************)
(* requestTownPassUser, in the order of its statements                     *)
(***************************************************************************)
\* Variant: the timeout option is not read.
timeoutMs_ignoresOption == DefaultTimeout

timeoutMs == IF opts.timeout = NoArg THEN DefaultTimeout ELSE opts.timeout

effectiveTimeout(arg) == IF arg = NoArg THEN timeoutMs ELSE arg

beginRequest(s, r) ==
  cleanup([Log(s, "start", "", r) EXCEPT !.cleanedRef = FALSE, !.isLoading = TRUE,
                                        !.error = NoError, !.user = Null])

attachGeneric(s, r) ==
  [Log(s, "attach", "message", r) EXCEPT
     !.listenerRef = Handler("generic", r),
     !.messageListeners = Append(@, Handler("generic", r))]

attachCustom(s, r) ==
  [Log(s, "attach", "custom", r) EXCEPT
     !.customListeners = Append(@, Handler("custom", r))]

installSlot(s, r) ==
  [Log(s, "attach", "slot", r) EXCEPT !.slot = Handler("slot", r)]

\* The calls into host objects named in host.throws raise; each is made
\* inside a try block whose catch only logs.
attachFlutter(s, r) ==
  IF host.flutter = "absent" THEN s
  ELSE IF "flutter.attach" \in host.throws
    THEN [Log(s, "caught", "flutter.attach", r) EXCEPT
            !.channelListenerRef = Handler("flutter", r)]
  ELSE LET s1 == [Log(s, "attach", "flutter", r) EXCEPT
                    !.channelListenerRef = Handler("flutter", r)]
       IN IF host.flutter = "listener"
            THEN [s1 EXCEPT !.flutterListeners = Append(@, Handler("flutter", r))]
            ELSE [s1 EXCEPT !.flutterOnmessage = Handler("flutter", r)]

attachChannel(s, r) ==
  IF host.channel = "absent" THEN s
  ELSE IF "channel.attach" \in host.throws THEN Log(s, "caught", "channel.attach", r)
  ELSE LET s1 == Log(s, "attach", "channel", r)
       IN IF host.channel = "listener"
            THEN [s1 EXCEPT !.channelListeners = Append(@, Handler("channel", r))]
            ELSE [s1 EXCEPT !.channelOnmessage = Handler("channel", r)]

attachListeners(s, r) ==
  attachChannel(attachFlutter(installSlot(attachCustom(attachGeneric(s, r), r), r), r), r)

\* Variant: the id is kept but the callback is never scheduled.
armTimer_notScheduled(s, r, timeout) ==
  [Log(s, "arm", "timer", r) EXCEPT !.timerRef = s.nextTimer, !.nextTimer = @ + 1]

\* window.setTimeout converts its delay to a number; what is not a number
\* becomes NaN, which it takes as 0.
Delay(timeout) == IF timeout = ClickEvent THEN 0 ELSE timeout

armTimer(s, r, timeout) ==
  [Log(s, "arm", "timer", r) EXCEPT
     !.timers = @ \cup {[id |-> s.nextTimer, req |-> r,
                         deadline |-> now + Delay(timeout)]},
     !.timerRef = s.nextTimer,
     !.nextTimer = @ + 1]

\* Variant: the exception of a probe send leaves requestTownPassUser.
probe_uncaught(s, r, ch, present) ==
  IF ~present THEN s
  ELSE IF ch \in host.throws THEN Log(s, "uncaught", ch, r)
  ELSE Log(s, "probe", ch, r)

\* try { bridge.postMessage(...) } catch (e) { log(...) }
probe(s, r, ch, present) ==
  IF ~present THEN s
  ELSE IF ch \in host.throws THEN Log(s, "caught", ch, r)
  ELSE Log(s, "probe", ch, r)

\* flutterObject.postMessage; the host may answer from inside the call.
probeFlutter(s, r) ==
  IF host.flutter = "absent" \/ "flutter" \in host.throws
    THEN probe(s, r, "flutter", host.flutter # "absent")
  ELSE IF Truthy(host.flutterReply)
    THEN deliver(Log(s, "probe", "flutter", r), "flutter", host.flutterReply)
    ELSE Log(s, "probe", "flutter", r)

\* Variant: the result of getUser is accepted without cleanup.
syncGetUser_noCleanup(s, r) ==
  IF "getUser" \notin host.bridges THEN s
  ELSE IF "getUser" \in host.throws THEN Log(s, "caught", "getUser", r)
  ELSE IF Truthy(host.getUserResult)
    THEN handleIncomingRaw(Log(Log(s, "call", "getUser", r), "recv", "getUser", r),
                           host.getUserResult).s
    ELSE Log(s, "call", "getUser", r)

\* const u = TownPass.getUser(); if (u) { const ok = handleIncomingRaw(u); ... }
syncGetUser(s, r) ==
  IF "getUser" \notin host.bridges THEN s
  ELSE IF "getUser" \in host.throws THEN Log(s, "caught", "getUser", r)
  ELSE IF Truthy(host.getUserResult)
    THEN acceptThenCleanup(Log(Log(s, "call", "getUser", r), "recv", "getUser", r),
                           host.getUserResult)
    ELSE Log(s, "call", "getUser", r)

sendProbes(s, r) ==
  LET s1 == probeFlutter(s, r)
      s2 == probe(s1, r, "channel", host.channel # "absent")
      s3 == probe(s2, r, "webkit", "webkit" \in host.bridges)
      s4 == probe(s3, r, "ReactNativeWebView", "ReactNativeWebView" \in host.bridges)
      s5 == probe(s4, r, "TownPass", "TownPass" \in host.bridges)
      s6 == probe(s5, r, "window", TRUE)
  IN syncGetUser(s6, r)

\* Variant: the probes are sent before the timer is armed.
requestTownPassUser_probesBeforeTimer(s, r, arg) ==
  armTimer(sendProbes(attachListeners(beginRequest(s, r), r), r), r, effectiveTimeout(arg))

requestTownPassUser(s, r, arg) ==
  sendProbes(armTimer(attachListeners(beginRequest(s, r), r), r, effectiveTimeout(arg)), r)

(***************************************************************************)
(* The deadline callback and reset                                         *)
(***************************************************************************)
onTimeout(s) ==
  cleanup([Log(s, "timeout", "", 0) EXCEPT !.isLoading = FALSE, !.error = TimeoutError])

reset(s) ==
  [cleanup(s) EXCEPT !.user = Null, !.isAuthenticated = FALSE,
                     !.isLoading = FALSE, !.error = NoError]

(***************************************************************************)
(* loginWithTownPass: one POST to the auth endpoint, and what the hook     *)
(* does when the answer is there                                           *)
(***************************************************************************)
SessionBody == Obj([token |-> Str("t1")])

\* What fetch gives: no answer at all (failed), or a status and a body, which
\* may be no JSON (json is Throws) or not readable as text.
Responses ==
  { [failed |-> FALSE, status |-> 200, readable |-> TRUE, text |-> "{\"token\":\"t1\"}",
     json |-> SessionBody],
    [failed |-> FALSE, status |-> 200, readable |-> TRUE, text |-> "<html>",
     json |-> Throws],
    [failed |-> FALSE, status |-> 401, readable |-> TRUE, text |-> "denied",
     json |-> Throws],
    [failed |-> FALSE, status |-> 500, readable |-> FALSE, text |-> "",
     json |-> Throws],
    [failed |-> TRUE, status |-> 0, readable |-> FALSE, text |-> "", json |-> Throws] }

NetworkError == "Failed to fetch"
JsonError == "Unexpected token < in JSON at position 0"

\* res.ok
ok(res) == res.status \in 200..299

\* await res.text().catch(() => "")
bodyText(res) == IF res.readable THEN res.text ELSE ""

\* `Backend auth failed ${res.status} ${txt}`
FailureMessage(res) ==
  "Backend auth failed " \o ToString(res.status) \o " " \o bodyText(res)

\* Variant: the status of the answer is not looked at.
settled_ignoresStatus(res) ==
  IF res.failed THEN [rejected |-> TRUE, value |-> Str(NetworkError)]
  ELSE IF res.json = Throws THEN [rejected |-> TRUE, value |-> Str(JsonError)]
  ELSE [rejected |-> FALSE, value |-> res.json]

\* How the promise of loginWithTownPass settles on an answer: with the body
\* it returns, or with the message of the error it throws.
settled(res) ==
  IF res.failed THEN [rejected |-> TRUE, value |-> Str(NetworkError)]
  ELSE IF ~ok(res) THEN [rejected |-> TRUE, value |-> Str(FailureMessage(res))]
  ELSE IF res.json = Throws THEN [rejected |-> TRUE, value |-> Str(JsonError)]
  ELSE [rejected |-> FALSE, value |-> res.json]

\* Variant: the listeners of the identity request are cleaned up first.
loginWithTownPass_cleansUp(s, u, n) ==
  [cleanup(s) EXCEPT !.isLoading = TRUE, !.error = NoError,
                     !.fetches = @ \cup {[n |-> n, u |-> u]}, !.sent = @ + 1]

\* The part of loginWithTownPass up to the await of fetch.
loginWithTownPass(s, u, n) ==
  [s EXCEPT !.isLoading = TRUE, !.error = NoError,
            !.fetches = @ \cup {[n |-> n, u |-> u]}, !.sent = @ + 1]

\* Variant: a rejected exchange is sent again.
loginAnswered_resends(s, f, res) ==
  IF settled(res).rejected
    THEN [s EXCEPT !.isAuthenticated = FALSE, !.error = settled(res).value.s,
                   !.sent = @ + 1]
    ELSE [s EXCEPT !.fetches = @ \ {f}, !.isAuthenticated = TRUE,
                   !.isLoading = FALSE]

\* The part of loginWithTownPass after the await.
loginAnswered(s, f, res) ==
  IF settled(res).rejected
    THEN [s EXCEPT !.fetches = @ \ {f}, !.isAuthenticated = FALSE,
                   !.isLoading = FALSE, !.error = settled(res).value.s]
    ELSE [s EXCEPT !.fetches = @ \ {f}, !.isAuthenticated = TRUE,
                   !.isLoading = FALSE]

(***************************************************************************)
(* useLocation: getLocation over flutterObject                             *)
(***************************************************************************)
LocationTimeout == 10000

Pending == [t |-> "pending"]

\* The messages useLocation sets as error (in the source they are Chinese
\* text).
LocationFailed == "location failed"
LocationParseError == "parsing the location failed"
LocationSendError == "sending the location request failed"
LocationTimedOut == "request timed out"

\* The state getLocation and its callbacks read and write, as one record.
Loc ==
  [location |-> location, loading |-> loading, error |-> locationError,
   listenerRef |-> locationListenerRef, listeners |-> flutterListeners,
   timers |-> locationTimers, promises |-> promises]

CommitLocation(l) ==
  /\ location' = l.location
  /\ loading' = l.loading
  /\ locationError' = l.error
  /\ locationListenerRef' = l.listenerRef
  /\ flutterListeners' = l.listeners
  /\ locationTimers' = l.timers
  /\ promises' = l.promises

\* resolve(v) of the promise of call c; a settled promise stays as it is.
resolve(l, c, v) ==
  IF l.promises[c] = Pending THEN [l EXCEPT !.promises[c] = v] ELSE l

\* JSON.parse(x): the argument is converted to a string first.
jsonParse(x) ==
  IF x.t = "json" THEN x.j
  ELSE IF x.t \in {"null", "num", "bool"} THEN x
  ELSE Throws

\* catch (error) { setError(...); setLoading(false); resolve(null); }
parseFailed(l, c) ==
  resolve([l EXCEPT !.error = LocationParseError, !.loading = FALSE], c, Null)

\* The listener of call c.
handleMessage(l, c, event) ==
  LET response == jsonParse(Get(event, "data"))
      h == Handler("location", c)
  IN IF response = Throws \/ Dot(response, "name") = Throws THEN parseFailed(l, c)
     ELSE IF ~IsStr(Dot(response, "name"), "location") THEN l
     ELSE
       LET locationData == Get(response, "data")
           l1 == [l EXCEPT !.listeners = Remove(@, h), !.listenerRef = NoFn,
                           !.location = locationData, !.loading = FALSE]
       IN IF Dot(locationData, "success") = Throws THEN parseFailed(l1, c)
          ELSE IF Truthy(Dot(locationData, "success")) THEN resolve(l1, c, locationData)
          ELSE resolve([l1 EXCEPT !.error =
                          IF Truthy(Get(locationData, "message"))
                            THEN Get(locationData, "message").s
                            ELSE LocationFailed],
                       c, Null)

\* The catch block around flutterObject.postMessage.
sendFailed(l, c) ==
  resolve([l EXCEPT !.error = LocationSendError, !.loading = FALSE,
                    !.listeners = Remove(@, Handler("location", c)),
                    !.listenerRef = NoFn],
          c, Null)

\* getLocation() in a host with flutterObject: call number c.
getLocation(l, c) ==
  LET h == Handler("location", c)
      l1 == [l EXCEPT !.loading = TRUE, !.error = NoError,
                      !.promises = Append(@, Pending)]
      l2 == IF l1.listenerRef # NoFn
              THEN [l1 EXCEPT !.listeners = Remove(@, l1.listenerRef)]
              ELSE l1
      l3 == [l2 EXCEPT !.listenerRef = h, !.listeners = Append(@, h)]
      l4 == IF "flutter" \in host.throws THEN sendFailed(l3, c) ELSE l3
  IN [l4 EXCEPT !.timers = @ \cup {[call |-> c, deadline |-> now + LocationTimeout]}]

\* Variant: the timer callback does not look at listenerRef.
onLocationTimeout_unguarded(l, c) ==
  resolve([l EXCEPT !.listeners = Remove(@, Handler("location", c)),
                    !.listenerRef = NoFn, !.error = LocationTimedOut,
                    !.loading = FALSE],
          c, Null)

\* The callback of the 10 s timer of call c.
onLocationTimeout(l, c) ==
  IF l.listenerRef = Handler("location", c)
    THEN resolve([l EXCEPT !.listeners = Remove(@, Handler("location", c)),
                           !.listenerRef = NoFn, !.error = LocationTimedOut,
                           !.loading = FALSE],
                 c, Null)
    ELSE l

\* flutterObject calls its 'message' listeners with event.
RECURSIVE locationDispatch(_, _, _)
locationDispatch(l, hs, event) ==
  IF hs = <<>> THEN l
  ELSE locationDispatch(IF Contains(l.listeners, Head(hs))
                          THEN handleMessage(l, Head(hs).req, event)
                          ELSE l,
                        Tail(hs), event)

LocationFix == Obj([success |-> Bool(TRUE), latitude |-> Num(25)])
LocationDenied == Obj([success |-> Bool(FALSE), message |-> Str("denied")])
LocationReply(data) == Json(Obj([name |-> Str("location"), data |-> data]))

(***************************************************************************)
(* What the trace of a handler run tells                                   *)
(***************************************************************************)
Accepts(log) == {i \in 1..Len(log) : log[i].op = "accept"}
FirstAccept(log) == log[CHOOSE i \in Accepts(log) : \A j \in Accepts(log) : i <= j].v
Accepters(log) ==
  {log[i].req : i \in {k \in 1..Len(log) : k + 1 \in Accepts(log) /\ log[k].op = "recv"}}

(***************************************************************************)
(* The hosts and the payloads the model draws from                         *)
(***************************************************************************)
U1 == Obj([id |-> Str("u1")])
U2 == Obj([id |-> Str("u2"), name |-> Str("Ada")])
UserInfoReply == Obj([name |-> Str("userinfo"), data |-> Json(U2)])
UserIdReply == Obj([name |-> Str("userid"), data |-> Str("u1")])

UserInfoObjReply == Obj([name |-> Str("userinfo"), data |-> U2])
UserInfoReplyText == Json(UserInfoReply)
\* JSON.stringify(JSON.stringify({id: 'u1'}))
DoubleEncoded == Json(Json(U1))
NotJson == Str("hello")
StringUser == Obj([townpass_user |-> Str("abc")])

\* The envelopes the request sends, as objects and as the text of them.
UserInfoProbe == Obj([name |-> Str("userinfo"), data |-> Null])
UserIdProbe == Obj([name |-> Str("userid"), data |-> Null])
WebkitProbe == Obj([action |-> Str("getUser")])
NativeProbe == Obj([type |-> Str("getUser")])
WindowProbe == Obj([source |-> Str("web"), type |-> Str("getUser")])
UserInfoProbeText == Json(UserInfoProbe)

\* callback is what the host keeps in window.__onTownPassUser, onmessage what
\* it keeps in the onmessage property of an object without addEventListener.
Hosts ==
  { [flutter |-> "absent", channel |-> "absent", bridges |-> {},
     flutterReply |-> Undef, getUserResult |-> Undef, throws |-> {},
     callback |-> HostFn, onmessage |-> NoFn],
    \* a host that reflects the probe it is sent
    [flutter |-> "listener", channel |-> "absent", bridges |-> {},
     flutterReply |-> UserInfoProbeText, getUserResult |-> Undef, throws |-> {},
     callback |-> NoFn, onmessage |-> NoFn],
    [flutter |-> "onmessage", channel |-> "onmessage",
     bridges |-> {"webkit", "ReactNativeWebView", "getUser"},
     flutterReply |-> Undef, getUserResult |-> Null, throws |-> {},
     callback |-> NoFn, onmessage |-> HostFn],
    [flutter |-> "listener", channel |-> "listener", bridges |-> {"TownPass"},
     flutterReply |-> UserInfoReplyText, getUserResult |-> Undef, throws |-> {},
     callback |-> NoFn, onmessage |-> NoFn],
    [flutter |-> "absent", channel |-> "listener", bridges |-> {"TownPass", "getUser"},
     flutterReply |-> Undef, getUserResult |-> U1, throws |-> {},
     callback |-> HostFn, onmessage |-> NoFn],
    \* a host that answers inside flutterObject.postMessage and has getUser
    [flutter |-> "onmessage", channel |-> "absent", bridges |-> {"getUser"},
     flutterReply |-> UserInfoObjReply, getUserResult |-> U1, throws |-> {},
     callback |-> NoFn, onmessage |-> NoFn],
    \* a host some of whose objects raise
    [flutter |-> "listener", channel |-> "onmessage",
     bridges |-> {"webkit", "ReactNativeWebView", "TownPass", "getUser"},
     flutterReply |-> Undef, getUserResult |-> Undef,
     throws |-> {"flutter", "channel.attach", "webkit", "ReactNativeWebView",
                 "getUser"},
     callback |-> NoFn, onmessage |-> NoFn] }

Payloads == {U1, UserInfoReply, UserIdReply, DoubleEncoded, NotJson, StringUser}

Channels == {"message", "custom", "slot", "flutter", "channel"}
TimeoutArgs == {NoArg, ArgTimeout}

(***************************************************************************)
(* The state machine                                                       *)
(***************************************************************************)
NotRun == [t |-> "notrun"]

\* The hook after construction, before any call.
Unstarted ==
  /\ user = Null
  /\ isLoading = FALSE
  /\ error = NoError
  /\ isAuthenticated = FALSE
  /\ timerRef = 0
  /\ listenerRef = NoFn
  /\ channelListenerRef = NoFn
  /\ cleanedRef = FALSE
  /\ messageListeners = <<>>
  /\ customListeners = <<>>
  /\ flutterListeners = <<>>
  /\ flutterOnmessage = (IF host.flutter = "onmessage" THEN host.onmessage ELSE NoFn)
  /\ channelListeners = <<>>
  /\ channelOnmessage = (IF host.channel = "onmessage" THEN host.onmessage ELSE NoFn)
  /\ timers = {}
  /\ nextTimer = 1
  /\ now = 0
  /\ reqCount = 0
  /\ phase = "idle"
  /\ firstAccepted = Null
  /\ events = <<>>
  /\ startedAt = 0
  /\ lastArg = NoArg
  /\ supersededReqs = {}
  /\ resetReqs = {}
  /\ acceptedBy = {}
  /\ firedFor = {}
  /\ fetches = {}
  /\ sent = 0
  /\ loginCount = 0
  /\ effectDeps = <<Null, FALSE, FALSE>>
  /\ attempts = 0
  /\ resetAtLogin = 0
  /\ location = Null
  /\ loading = FALSE
  /\ locationError = NoError
  /\ locationListenerRef = NoFn
  /\ locationTimers = {}
  /\ promises = <<>>
  /\ firedLocation = {}
  /\ pet = Null
  /\ petLoading = FALSE
  /\ petFetches = {}
  /\ petFetchCount = 0
  /\ userIdSets = 0
  /\ userEffectDeps = Undef

Init ==
  /\ opts \in {[timeout |-> NoArg], [timeout |-> OptTimeout]}
  /\ host \in Hosts
  /\ slot = host.callback
  /\ input = Undef
  /\ output = NotRun
  /\ userId = Null
  /\ Unstarted

\* requestTownPassUser(arg) is called.
RequestWith(arg) ==
  /\ reqCount < MaxRequests
  \* a request starts while the clock of the model can reach its deadline
  /\ now + effectiveTimeout(arg) <= MaxNow
  /\ \E s \in {requestTownPassUser(St, reqCount + 1, arg)} :
        /\ Commit(s)
        /\ reqCount' = reqCount + 1
        /\ phase' = IF Accepts(s.log) # {} THEN "resolved" ELSE "open"
        /\ firstAccepted' = IF Accepts(s.log) # {} THEN FirstAccept(s.log) ELSE Null
        /\ events' = s.log
        /\ startedAt' = now
        /\ lastArg' = arg
        /\ supersededReqs' = IF phase = "open" THEN supersededReqs \cup {reqCount}
                                               ELSE supersededReqs
        /\ acceptedBy' = acceptedBy \cup Accepters(s.log)
  /\ attempts' = 0
  /\ UNCHANGED <<otherVars, resetAtLogin, opts, host, now, resetReqs, firedFor, input, output,
                 loginCount, effectDeps>>

Request == \E arg \in TimeoutArgs : RequestWith(arg)

\* The host sends p on channel ch.
DeliverOn(ch, p) ==
  /\ attachedTo(St, ch) # <<>>
  /\ \E s \in {deliver(St, ch, p)} :
        /\ Commit(s)
        /\ phase' = IF phase = "open" /\ Accepts(s.log) # {} THEN "resolved" ELSE phase
        /\ firstAccepted' = IF phase = "open" /\ Accepts(s.log) # {}
                              THEN FirstAccept(s.log) ELSE firstAccepted
        /\ acceptedBy' = acceptedBy \cup Accepters(s.log)
  /\ attempts' = 0
  /\ UNCHANGED <<otherVars, resetAtLogin, opts, host, now, reqCount, events, startedAt, lastArg,
                 supersededReqs, resetReqs, firedFor, input, output,
                 loginCount, effectDeps>>

Deliver == \E ch \in Channels, p \in Payloads : DeliverOn(ch, p)

TimerFire ==
  /\ \E t \in timers :
       /\ now >= t.deadline
       /\ \E s \in {onTimeout([St EXCEPT !.timers = @ \ {t}])} : Commit(s)
       /\ firedFor' = firedFor \cup {t.req}
  /\ phase' = IF phase = "open" THEN "timedout" ELSE phase
  /\ UNCHANGED <<otherVars, resetAtLogin, opts, host, now, reqCount, firstAccepted, events, startedAt,
                 lastArg, supersededReqs, resetReqs, acceptedBy, input, output,
                 loginCount, effectDeps, attempts>>

Reset ==
  /\ \E s \in {reset(St)} : Commit(s)
  /\ phase' = IF reqCount = 0 THEN "idle" ELSE "cancelled"
  /\ resetAtLogin' = loginCount
  /\ resetReqs' = IF phase = "open" THEN resetReqs \cup {reqCount} ELSE resetReqs
  /\ attempts' = 0
  /\ UNCHANGED <<otherVars, opts, host, now, reqCount, firstAccepted, events, startedAt,
                 lastArg, supersededReqs, acceptedBy, firedFor, input, output,
                 loginCount, effectDeps>>

Tick ==
  /\ now < MaxNow
  /\ now' = now + TimeStep
  /\ UNCHANGED <<otherVars, resetAtLogin, opts, host, user, isLoading, error, isAuthenticated, timerRef,
                 listenerRef, channelListenerRef, cleanedRef, messageListeners,
                 customListeners, slot, flutterListeners, flutterOnmessage,
                 channelListeners, channelOnmessage, timers, nextTimer,
                 reqCount, phase, firstAccepted, events, startedAt, lastArg,
                 supersededReqs, resetReqs, acceptedBy, firedFor, input,
                 output, fetches, sent, loginCount, effectDeps,
                 attempts>>

Next == Request \/ Deliver \/ TimerFire \/ Reset \/ Tick

Spec == Init /\ [][Next]_vars

\* Time passes, and the window runs the callback of a timer that is due.
LiveSpec == Spec /\ WF_vars(Tick) /\ WF_vars(TimerFire)

(***************************************************************************)
(* The hook with a caller of loginWithTownPass                             *)
(***************************************************************************)
stVars == <<user, isLoading, error, isAuthenticated, timerRef, listenerRef,
            channelListenerRef, cleanedRef, messageListeners, customListeners,
            slot, flutterListeners, flutterOnmessage, channelListeners,
            channelOnmessage, timers, nextTimer, fetches, sent>>

requestVars == <<otherVars, resetAtLogin, opts, host, now, reqCount, phase, firstAccepted, events,
                 startedAt, lastArg, supersededReqs, resetReqs, acceptedBy,
                 firedFor, input, output>>

LoginArgs == {U1}

\* The host posts the identity as a window message.
Identify == DeliverOn("message", U1)

\* loginWithTownPass(u) is called.
Login ==
  /\ loginCount < MaxLogins
  /\ \E u \in LoginArgs :
       \E s \in {loginWithTownPass(St, u, loginCount + 1)} : Commit(s)
  /\ loginCount' = loginCount + 1
  /\ UNCHANGED <<requestVars, effectDeps, attempts>>

\* The backend answers a POST, or the POST fails.
FetchDone ==
  /\ \E f \in fetches, res \in Responses :
       \E s \in {loginAnswered(St, f, res)} : Commit(s)
  /\ UNCHANGED <<requestVars, loginCount, effectDeps, attempts>>

\* The hosts of this specification answer on the window channels only.
WindowHosts == {h \in Hosts : h.flutter = "absent"}

LoginInit ==
  /\ opts = [timeout |-> NoArg]
  /\ host \in WindowHosts
  /\ slot = host.callback
  /\ input = Undef
  /\ output = NotRun
  /\ userId = Null
  /\ Unstarted

LoginNext ==
  \/ RequestWith(NoArg) \/ Identify \/ TimerFire \/ Reset \/ Tick \/ Login
  \/ FetchDone

LoginSpec == LoginInit /\ [][LoginNext]_vars

(***************************************************************************)
(* TownPassDemo: the request on mount, the login effect, the two buttons   *)
(***************************************************************************)
DemoTimeout == 3000

\* useEffect(() => { requestTownPassUser(); }, [requestTownPassUser])
Mount == reqCount = 0 /\ RequestWith(NoArg)

\* <button onClick={requestTownPassUser} disabled={isLoading}>
ClickRequest == reqCount > 0 /\ ~isLoading /\ RequestWith(ClickEvent)

\* <button onClick={reset} disabled={isLoading}>
ClickReset == reqCount > 0 /\ ~isLoading /\ Reset

\* The login effect runs after a render in which one of its dependencies
\* has changed.
LoginEffect ==
  /\ effectDeps # <<user, isAuthenticated, isLoading>>
  /\ effectDeps' = <<user, isAuthenticated, isLoading>>
  /\ IF Truthy(user) /\ ~isAuthenticated /\ ~isLoading /\ loginCount < MaxLogins
       THEN /\ \E s \in {loginWithTownPass(St, user, loginCount + 1)} : Commit(s)
            /\ loginCount' = loginCount + 1
            /\ attempts' = attempts + 1
       ELSE UNCHANGED <<stVars, loginCount, attempts>>
  /\ UNCHANGED requestVars

DemoInit ==
  /\ opts = [timeout |-> DemoTimeout]
  /\ host \in WindowHosts
  /\ slot = host.callback
  /\ input = Undef
  /\ output = NotRun
  /\ userId = Null
  /\ Unstarted

DemoNext ==
  \/ Mount \/ ClickRequest \/ ClickReset \/ Identify \/ TimerFire \/ Tick
  \/ LoginEffect \/ FetchDone

DemoSpec == DemoInit /\ [][DemoNext]_vars

(***************************************************************************)
(* useLocation in a host with flutterObject                                *)
(***************************************************************************)
\* What flutterObject may send while useLocation listens: location replies,
\* and the replies to the userinfo command of useTownPassAuth.
LocationReplies == {LocationReply(LocationFix), LocationReply(LocationDenied)}
OtherMessages == {UserInfoReplyText, UserInfoObjReply, NotJson}

authVars == <<opts, host, user, isLoading, error, isAuthenticated, timerRef,
              listenerRef, channelListenerRef, cleanedRef, messageListeners,
              customListeners, slot, flutterOnmessage, channelListeners,
              channelOnmessage, timers, nextTimer, reqCount, phase,
              firstAccepted, events, startedAt, lastArg, supersededReqs,
              resetReqs, acceptedBy, firedFor, input, output, fetches, sent,
              loginCount, effectDeps, attempts, resetAtLogin>>

\* getLocation() is called.
GetLocation ==
  /\ Len(promises) < MaxLocationCalls
  /\ now + LocationTimeout <= LocationMaxNow
  /\ \E l \in {getLocation(Loc, Len(promises) + 1)} : CommitLocation(l)
  /\ UNCHANGED <<authVars, userVars, now, firedLocation>>

\* flutterObject sends a message.
LocationMessage ==
  /\ flutterListeners # <<>>
  /\ \E p \in LocationReplies \cup OtherMessages :
       \E l \in {locationDispatch(Loc, flutterListeners, Obj([data |-> p]))} :
          CommitLocation(l)
  /\ UNCHANGED <<authVars, userVars, now, firedLocation>>

\* The window runs the callback of the oldest timer, which is due.
LocationTimerFire ==
  /\ \E tm \in locationTimers :
       /\ now >= tm.deadline
       /\ \A other \in locationTimers : tm.call <= other.call
       /\ \E l \in {onLocationTimeout([Loc EXCEPT !.timers = @ \ {tm}], tm.call)} :
            CommitLocation(l)
       /\ firedLocation' = firedLocation \cup {tm.call}
  /\ UNCHANGED <<authVars, userVars, now>>

\* Time passes once the timers that are due have run.
LocationTick ==
  /\ now < LocationMaxNow
  /\ \A tm \in locationTimers : now < tm.deadline
  /\ now' = now + LocationStep
  /\ UNCHANGED <<authVars, userVars, locationVars, flutterListeners>>

LocationHosts == {h \in Hosts : h.flutter = "listener"}

LocationInit ==
  /\ opts = [timeout |-> NoArg]
  /\ host \in LocationHosts
  /\ slot = host.callback
  /\ input = Undef
  /\ output = NotRun
  /\ userId = Null
  /\ Unstarted

LocationNext == GetLocation \/ LocationMessage \/ LocationTimerFire \/ LocationTick

LocationSpec == LocationInit /\ [][LocationNext]_vars

(***************************************************************************)
(* UserProvider: userId, and the pet fetched for it                        *)
(***************************************************************************)
UserIds == {Null, Num(1), Num(2)}

\* What getUserPet(id) resolves with.
PetOf(id) == Obj([user_id |-> id])

\* The state refreshPet reads and writes, as one record.
Usr == [pet |-> pet, isLoading |-> petLoading, fetches |-> petFetches]

CommitUser(u) ==
  /\ pet' = u.pet
  /\ petLoading' = u.isLoading
  /\ petFetches' = u.fetches

\* refreshPet of the render in which userId is id, up to the await.
refreshPet(u, id, n) ==
  IF ~Truthy(id) THEN [u EXCEPT !.pet = Null]
  ELSE [u EXCEPT !.isLoading = TRUE, !.fetches = @ \cup {[n |-> n, id |-> id]}]

\* refreshPet after the await: setPet(petData), or the catch; then finally.
petAnswered(u, f, resolved) ==
  IF resolved
    THEN [u EXCEPT !.fetches = @ \ {f}, !.pet = PetOf(f.id), !.isLoading = FALSE]
    ELSE [u EXCEPT !.fetches = @ \ {f}, !.isLoading = FALSE]

\* setUserId(id) is called by a consumer of the context.
SetUserId ==
  /\ userIdSets < MaxUserIdSets
  /\ userId' \in UserIds \ {userId}
  /\ userIdSets' = userIdSets + 1
  /\ UNCHANGED <<authVars, locationVars, flutterListeners, now, pet, petLoading,
                 petFetches, petFetchCount, userEffectDeps>>

\* useEffect(() => { if (userId) refreshPet(); }, [userId])
UserEffect ==
  /\ userEffectDeps # userId
  /\ userEffectDeps' = userId
  /\ IF Truthy(userId) /\ petFetchCount < MaxPetFetches
       THEN /\ \E u \in {refreshPet(Usr, userId, petFetchCount + 1)} : CommitUser(u)
            /\ petFetchCount' = petFetchCount + 1
       ELSE UNCHANGED <<pet, petLoading, petFetches, petFetchCount>>
  /\ UNCHANGED <<authVars, locationVars, flutterListeners, now, userId, userIdSets>>

\* A consumer calls refreshPet().
RefreshPet ==
  /\ petFetchCount < MaxPetFetches
  /\ \E u \in {refreshPet(Usr, userId, petFetchCount + 1)} : CommitUser(u)
  /\ petFetchCount' = IF Truthy(userId) THEN petFetchCount + 1 ELSE petFetchCount
  /\ UNCHANGED <<authVars, locationVars, flutterListeners, now, userId, userIdSets,
                 userEffectDeps>>

\* getUserPet settles.
PetFetchDone ==
  /\ \E f \in petFetches, resolved \in BOOLEAN :
       \E u \in {petAnswered(Usr, f, resolved)} : CommitUser(u)
  /\ UNCHANGED <<authVars, locationVars, flutterListeners, now, userId, userIdSets,
                 petFetchCount, userEffectDeps>>

\* userId starts as what localStorage holds.
UserInit ==
  /\ opts = [timeout |-> NoArg]
  /\ host \in {h \in Hosts : h.flutter = "absent" /\ h.bridges = {}}
  /\ slot = host.callback
  /\ input = Undef
  /\ output = NotRun
  /\ userId \in {Null, Num(1)}
  /\ Unstarted

UserNext == SetUserId \/ UserEffect \/ RefreshPet \/ PetFetchDone

UserSpec == UserInit /\ [][UserNext]_vars

(***************************************************************************)
(* parseIncoming alone, applied to one input after the other               *)
(***************************************************************************)
Atoms ==
  {Null, Num(0), Num(7), Str(""), Str("abc"), U1, U2, Json(U1),
   Obj([name |-> Str("Ada")]), Obj([length |-> Num(0)])}

Shaped(v) ==
  {v,
   Obj([source |-> Str("townpass"), type |-> Str("user"), payload |-> v]),
   Obj([source |-> Str("townpass"), type |-> Str("user_info"), user |-> v]),
   Obj([type |-> Str("townpass:user"), user |-> v]),
   Obj([type |-> Str("TOWNPASS_USER"), user |-> v]),
   Obj([townpass_user |-> v]),
   Obj([user |-> v]),
   Obj([name |-> Str("userinfo"), data |-> v]),
   Obj([name |-> Str("userid"), data |-> v]),
   Obj([detail |-> v]),
   Obj([detail |-> Obj([user |-> v])]),
   Obj([id |-> Str("top"), user |-> v]),
   Obj([id |-> Str("top"), detail |-> Obj([user |-> v])]),
   Obj([id |-> Str("top"), name |-> Str("userinfo"), data |-> v]),
   Obj([user |-> U1, townpass_user |-> v])}

Objects == UNION {Shaped(v) : v \in Atoms}
RawInputs == {Undef, NotJson} \cup Objects \cup {Json(x) : x \in Objects}

hookVars == <<otherVars, resetAtLogin, opts, host, user, isLoading, error, isAuthenticated, timerRef,
              listenerRef, channelListenerRef, cleanedRef, messageListeners,
              customListeners, slot, flutterListeners, flutterOnmessage,
              channelListeners, channelOnmessage, timers, nextTimer, now,
              reqCount, phase, firstAccepted, events, startedAt, lastArg,
              supersededReqs, resetReqs, acceptedBy, firedFor, fetches, sent,
              loginCount, effectDeps, attempts>>

ParseInit ==
  /\ input \in RawInputs
  /\ output = NotRun
  /\ opts = [timeout |-> NoArg]
  /\ host = [flutter |-> "absent", channel |-> "absent", bridges |-> {},
             flutterReply |-> Undef, getUserResult |-> Undef, throws |-> {},
             callback |-> NoFn, onmessage |-> NoFn]
  /\ slot = NoFn
  /\ userId = Null
  /\ Unstarted

Parse ==
  /\ output = NotRun
  /\ output' = parseIncoming(input)
  /\ UNCHANGED <<hookVars, input>>

NextInput ==
  /\ output # NotRun
  /\ input' \in RawInputs
  /\ output' = NotRun
  /\ UNCHANGED hookVars

ParseNext == Parse \/ NextInput

ParseSpec == ParseInit /\ [][ParseNext]_vars

TypeOK ==
  /\ timerRef \in 0..MaxRequests
  /\ reqCount \in 0..MaxRequests
  /\ phase \in {"idle", "open", "resolved", "timedout", "cancelled"}
  /\ (phase = "open") <=> (timerRef # 0)

(***************************************************************************)
(* Properties                                                              *)
(***************************************************************************)
EngineHandlers ==
  {messageListeners[i] : i \in 1..Len(messageListeners)}
    \cup {customListeners[i] : i \in 1..Len(customListeners)}
    \cup {flutterListeners[i] : i \in 1..Len(flutterListeners)}
    \cup {channelListeners[i] : i \in 1..Len(channelListeners)}
    \cup {h \in {slot, flutterOnmessage, channelOnmessage} : h.req # 0}

ListenersOfRequest ==
  {"message", "custom", "slot", "timer"}
    \cup (IF host.flutter # "absent" /\ "flutter.attach" \notin host.throws
            THEN {"flutter"} ELSE {})
    \cup (IF host.channel # "absent" /\ "channel.attach" \notin host.throws
            THEN {"channel"} ELSE {})

AttachedBefore(i) ==
  {events[j].ch : j \in {k \in 1..(i - 1) : events[k].op \in {"attach", "arm"}}}

\* C1: in the trace of every requestTownPassUser call, each probe comes after
\* the attachment of every listener of that call and after the arming of the
\* deadline timer.
C1_ListenersBeforeProbes ==
  \A i \in 1..Len(events) :
    events[i].op = "probe" =>
      /\ AttachedBefore(i) = ListenersOfRequest
      /\ \A j \in 1..Len(events) : events[j].op \in {"attach", "arm"} => j < i

C1_Witness ==
  /\ reqCount >= 1
  /\ \E i \in 1..Len(events) : events[i].op = "probe" /\ events[i].ch = "flutter"
  /\ \E i \in 1..Len(events) : events[i].op = "probe" /\ events[i].ch = "channel"
  /\ \E i \in 1..Len(events) : events[i].op = "attach" /\ events[i].ch = "channel"

\* C2: while the latest request stands resolved, user is the identity that
\* resolved it, error is null and isLoading is false, whatever is delivered
\* afterwards (the call itself having accepted at most one payload).
C2_ResolvedStateIsStable ==
  phase = "resolved" /\ Cardinality(Accepts(events)) <= 1
    => user = firstAccepted /\ error = NoError /\ ~isLoading

\* C3: whenever no request is open, no engine handler is attached on any
\* channel and the __onTownPassUser slot holds no engine handler.
C3_NoHandlerWhenNotOpen ==
  phase # "open" => EngineHandlers = {}

\* C4: on every channel at most one engine handler is attached, however many
\* requests were started.
C4_AtMostOneHandlerPerChannel ==
  /\ Len(messageListeners) <= 1
  /\ Len(customListeners) <= 1
  /\ Len(flutterListeners) <= 1
  /\ Len(channelListeners) <= 1

\* C5: no handler of a request that was superseded while open is attached
\* once the new request's handlers are, and no such handler ever accepts a
\* payload.
C5_SupersededRequestIsDetached ==
  /\ \A h \in EngineHandlers : h.req \notin supersededReqs
  /\ acceptedBy \cap supersededReqs = {}

\* The deadline the claim states: the argument, else the option, else 3000 ms.
StatedTimeout ==
  IF lastArg # NoArg THEN lastArg
  ELSE IF opts.timeout # NoArg THEN opts.timeout
  ELSE 3000

\* C6: the timer of the latest request is armed for the stated deadline; when
\* the open request ends by its deadline, error is the timeout message,
\* isLoading is false and user is null; the timeout message never appears
\* before the stated deadline has elapsed.
C6_TimeoutAtDeadline ==
  /\ [](\A t \in timers : t.req = reqCount => t.deadline = startedAt + StatedTimeout)
  /\ [][(phase = "open" /\ phase' = "timedout") =>
          /\ error' = TimeoutError
          /\ ~isLoading'
          /\ user' = Null
          /\ now >= startedAt + StatedTimeout]_vars
  /\ [][(error # TimeoutError /\ error' = TimeoutError) =>
          now >= startedAt + StatedTimeout]_vars

C6_Witness ==
  /\ phase = "timedout"
  /\ error = TimeoutError
  /\ lastArg = NoArg
  /\ opts.timeout = NoArg
  /\ now = startedAt + DefaultTimeout

\* C7: while the latest request stands timed out, user is null and error is
\* the timeout message, whatever is delivered afterwards.
C7_TimedOutStateIsStable ==
  phase = "timedout" => user = Null /\ error = TimeoutError

\* C8: after reset has cancelled an open request, and until the next request,
\* user is null, error is null, isLoading and isAuthenticated are false and no
\* timer is armed, whatever is delivered afterwards.
C8_ResetIsFinal ==
  (phase = "cancelled" /\ reqCount \in resetReqs) =>
    /\ user = Null
    /\ error = NoError
    /\ ~isLoading
    /\ ~isAuthenticated
    /\ timerRef = 0
    /\ timers = {}

C11_AssignedOncePerCall == Cardinality(Accepts(events)) <= 1

\* C12: under LiveSpec every request that is open is eventually superseded by
\* a later call or stands, with isLoading false, resolved with a user, timed
\* out with the timeout error, or cleared by reset.
Closed ==
  /\ ~isLoading
  /\ \/ phase = "resolved" /\ user # Null
     \/ phase = "timedout" /\ error = TimeoutError
     \/ phase = "cancelled" /\ user = Null /\ error = NoError

C12_EveryRequestCloses ==
  \A n \in 1..MaxRequests :
     (reqCount = n /\ phase = "open") ~> (reqCount > n \/ Closed)

C12_Witness ==
  /\ reqCount = MaxRequests
  /\ phase = "timedout"
  /\ Closed
  /\ firedFor = {MaxRequests}

\* The hook once the host has sent p on channel ch (deliver is what DeliverOn
\* commits), and whether that resolved an open request with identity u.
Sent(ch, p) == deliver(St, ch, p)
ResolvedWith(s, u) ==
  /\ Accepts(s.log) # {}
  /\ s.user = u
  /\ ~s.isLoading
  /\ s.error = NoError
  /\ s.timerRef = 0
Listening(ch) == attachedTo(St, ch) # <<>>

\* C13: while a request is open, a userinfo reply sent on flutterObject, its
\* data an identity or the JSON text of one, resolves the request with that
\* identity; so does one the host gives from inside the probe send.
UserInfoReplies == {UserInfoReply, UserInfoObjReply, UserInfoReplyText}

\* The flutterObject handler ran inside the call and accepted next.
AcceptedFromFlutter ==
  {i \in 1..Len(events) : /\ events[i].op = "recv" /\ events[i].ch = "flutter"
                          /\ i + 1 \in Accepts(events)}

C13_UserinfoReplyResolves ==
  /\ phase = "open" /\ Listening("flutter")
       => \A p \in UserInfoReplies : ResolvedWith(Sent("flutter", p), U2)
  /\ \A i \in 1..Len(events) :
       /\ events[i].op = "recv" /\ events[i].ch = "flutter"
       /\ host.flutterReply \in UserInfoReplies
       => i + 1 \in Accepts(events) /\ events[i + 1].v = U2

C13_Witness ==
  /\ phase = "resolved"
  /\ AcceptedFromFlutter # {}
  /\ user = U2
  /\ ~isLoading

\* C14: while a request is open, the reply {name: 'userid', data: 'u1'}
\* resolves it with {id: 'u1'} on whichever channel it is sent.
C14_UseridReplyResolves ==
  phase = "open" =>
    \A ch \in {"flutter", "channel", "message", "slot"} :
       Listening(ch) => ResolvedWith(Sent(ch, UserIdReply), Obj([id |-> Str("u1")]))

\* C18: a string that is not JSON, and an identity that was JSON-encoded
\* twice, are recognized on no channel.
C18_DecodedExactlyOnce ==
  phase = "open" =>
    \A ch \in {"message", "slot", "flutter", "channel"}, p \in {NotJson, DoubleEncoded} :
       Listening(ch) => Accepts(Sent(ch, p).log) = {}

\* C19: a message sent on a channel none of whose handlers hands parseIncoming
\* something it recognizes leaves an open request as it was: user, error,
\* isLoading, the timer and every listener; so does one the host sends from
\* inside the probe send.
NotRecognizedOn(ch, p) ==
  \A i \in 1..Len(attachedTo(St, ch)) :
     ~Truthy(parseIncoming(handed(attachedTo(St, ch)[i], argumentOn(ch, p))))

\* The flutterObject handler ran inside the call.
IgnoredFromFlutter ==
  {i \in 1..Len(events) : events[i].op = "recv" /\ events[i].ch = "flutter"}

C19_UnrecognizedChangesNothing ==
  /\ phase = "open" =>
       \A ch \in Channels, p \in Payloads :
          Listening(ch) /\ NotRecognizedOn(ch, p)
            => [Sent(ch, p) EXCEPT !.log = <<>>] = St
  /\ phase = "open" /\ IgnoredFromFlutter # {} /\ Accepts(events) = {}
       => /\ user = Null /\ error = NoError /\ isLoading
          /\ \E tm \in timers : tm.id = timerRef /\ tm.req = reqCount
          /\ Contains(messageListeners, Handler("generic", reqCount))
          /\ Contains(customListeners, Handler("custom", reqCount))
          /\ slot = Handler("slot", reqCount)
          /\ Contains(attachedTo(St, "flutter"), Handler("flutter", reqCount))

\* A message that was ignored, then a recognized one that resolved the request.
C19_Witness ==
  /\ IgnoredFromFlutter # {}
  /\ Accepts(events) = {}
  /\ phase = "resolved"
  /\ user = firstAccepted
  /\ user # Null

\* C20: whichever calls into the host raise, requestTownPassUser catches
\* each, still sends the probe of every other bridge, sets no error, and
\* leaves the request open with its timer armed unless a payload was accepted.
Probed ==
  {"window"}
    \cup (IF host.flutter # "absent" THEN {"flutter"} ELSE {})
    \cup (IF host.channel # "absent" THEN {"channel"} ELSE {})
    \cup (host.bridges \cap {"webkit", "ReactNativeWebView", "TownPass"})

C20_ThrowingBridgesAreSkipped ==
  [][reqCount' = reqCount + 1 =>
       /\ \A i \in 1..Len(events') : events'[i].op # "uncaught"
       /\ \A ch \in Probed \ host.throws :
             \E i \in 1..Len(events') : events'[i].op = "probe" /\ events'[i].ch = ch
       /\ error' = NoError
       /\ Accepts(events') = {} =>
             /\ phase' = "open"
             /\ isLoading'
             /\ \E tm \in timers' : tm.id = timerRef' /\ tm.req = reqCount'
                                     /\ tm.deadline = now + StatedTimeout']_vars

C20_Witness ==
  /\ phase = "open"
  /\ timerRef # 0
  /\ \E i \in 1..Len(events) : events[i].op = "caught" /\ events[i].ch = "webkit"
  /\ \E i \in 1..Len(events) : events[i].op = "caught" /\ events[i].ch = "channel.attach"
  /\ \E i \in 1..Len(events) : events[i].op = "probe" /\ events[i].ch = "TownPass"

(***************************************************************************)
(* The envelope shapes, as a table: what each looks like and what it holds *)
(***************************************************************************)
DecodedOnce(v) == IF v.t = "json" /\ v.j # Null THEN v.j ELSE v

Matches(shape, p) ==
  CASE shape = "tagged" ->
         /\ IsStr(Get(p, "source"), "townpass")
         /\ \E x \in {"user", "user_info"} : IsStr(Get(p, "type"), x)
    [] shape = "typed" ->
         /\ \E x \in {"townpass:user", "TOWNPASS_USER", "TOWNPASS_USER_INFO"} :
               IsStr(Get(p, "type"), x)
         /\ Truthy(Get(p, "user"))
    [] shape = "townpass_user" -> Truthy(Get(p, "townpass_user"))
    [] shape = "user" ->
         Get(p, "user").t = "obj" /\ Truthy(Get(Get(p, "user"), "id"))
    [] shape = "userinfo" ->
         IsStr(Get(p, "name"), "userinfo") /\ Get(p, "data").t \in {"str", "json", "obj", "null"}
    [] shape = "detail" ->
         \E k \in {"user", "townpass_user"} : Truthy(Get(Get(p, "detail"), k))
    [] shape = "bare" -> p.t = "obj" /\ Truthy(Get(p, "id"))
    [] OTHER -> FALSE

Holds(shape, p) ==
  CASE shape = "tagged" ->
         IF ~Nullish(Get(p, "payload")) THEN Get(p, "payload")
         ELSE IF ~Nullish(Get(p, "user")) THEN Get(p, "user") ELSE Null
    [] shape = "typed" -> Get(p, "user")
    [] shape = "townpass_user" -> Get(p, "townpass_user")
    [] shape = "user" -> Get(p, "user")
    [] shape = "userinfo" ->
         IF Get(p, "data").t = "json" THEN Get(p, "data").j
         ELSE IF Get(p, "data").t = "str" THEN Null
         ELSE Get(p, "data")
    [] shape = "detail" ->
         IF ~Nullish(Get(Get(p, "detail"), "user")) THEN Get(Get(p, "detail"), "user")
         ELSE Get(Get(p, "detail"), "townpass_user")
    [] OTHER -> p

\* The result of the first shape of the order that the input matches.
FirstMatch(order, v) ==
  IF ~Truthy(v) THEN Null
  ELSE LET p == DecodedOnce(v)
           hits == {i \in 1..Len(order) : Matches(order[i], p)}
       IN IF hits = {} THEN Null
          ELSE Holds(order[CHOOSE i \in hits : \A j \in hits : i <= j], p)

StatedOrder == <<"tagged", "typed", "townpass_user", "user", "userinfo", "bare", "detail">>
TriedOrder == <<"tagged", "typed", "townpass_user", "user", "userinfo", "detail", "bare">>

IsIdentity(v) == v.t = "obj" /\ Get(v, "id").t = "str" /\ Get(v, "id").s # ""

\* The input, decoded once, has none of the shapes.
Shapeless(v) == \A i \in 1..Len(TriedOrder) : ~Matches(TriedOrder[i], DecodedOnce(v))

\* C15: parseIncoming never throws, returns null or an identity, and returns
\* null for every input that has none of the shapes.
C15_ParseIncomingIsTotal ==
  output # NotRun =>
    /\ output # Throws
    /\ output = Null \/ IsIdentity(output)
    /\ Shapeless(input) => output = Null

\* C16: whenever user is non-null it is an object with a non-empty id.
C16_UserIsAnIdentity == user # Null => IsIdentity(user)

\* C17 as stated: the shapes are tried with the bare object carrying an id
\* before the detail wrapper.
C17_StatedOrder == output # NotRun => output = FirstMatch(StatedOrder, input)

\* C17: parseIncoming returns what the first matching shape holds, in the
\* order tagged envelope, typed envelope, townpass_user, user, userinfo
\* reply, detail wrapper, bare object with an id.
C17_TriedOrder == output # NotRun => output = FirstMatch(TriedOrder, input)

\* An input with a top-level id and a detail.user: detail.user is returned.
C17_Witness ==
  /\ input = Obj([id |-> Str("top"), detail |-> Obj([user |-> U2])])
  /\ output = U2

(***************************************************************************)
(* The global callback, the order of the probes, the direct accessor       *)
(***************************************************************************)
TornDown == phase \in {"resolved", "timedout", "cancelled"}

\* C21: after a request was torn down (resolved, timed out or reset),
\* window.__onTownPassUser holds what the host kept there before the request:
\* nothing if it was absent, the host's own function if there was one.
C21_CallbackSlotIsRestored == TornDown => slot = host.callback

Rank(ch) ==
  CASE ch = "getUser" -> 1
    [] ch = "flutter" -> 2
    [] ch = "channel" -> 3
    [] ch \in {"webkit", "ReactNativeWebView", "TownPass"} -> 4
    [] ch = "window" -> 5
    [] OTHER -> 0

\* The positions of the trace at which a channel was tried.
Tried(log) ==
  {i \in 1..Len(log) : log[i].op \in {"probe", "call", "caught"} /\ Rank(log[i].ch) > 0}

\* C22: within one requestTownPassUser call the channels are tried in the
\* documented order: TownPass.getUser() first, then flutterObject, then
\* townpass_message_channel, then the native bridges, then window.postMessage.
C22_DocumentedProbeOrder ==
  \A i, j \in Tried(events) : i < j => Rank(events[i].ch) <= Rank(events[j].ch)

ReturnsIdentity ==
  /\ "getUser" \in host.bridges
  /\ "getUser" \notin host.throws
  /\ IsIdentity(host.getUserResult)

\* C23: when TownPass.getUser() returns an identity, the state that
\* requestTownPassUser leaves is resolved with that identity, not loading,
\* without error and without an armed timer, and no deadline callback runs.
C23_DirectAccessorResolves ==
  /\ [][(reqCount' = reqCount + 1 /\ ReturnsIdentity)
          => /\ phase' = "resolved"
             /\ user' = host.getUserResult
             /\ ~isLoading'
             /\ error' = NoError
             /\ timerRef' = 0
             /\ \A t \in timers' : t.req # reqCount']_vars
  /\ [](ReturnsIdentity => firedFor = {} /\ error # TimeoutError)

C23_Witness ==
  /\ ReturnsIdentity
  /\ phase = "resolved"
  /\ user = host.getUserResult
  /\ \E i \in 1..Len(events) : events[i].op = "recv" /\ events[i].ch = "getUser"
  /\ now >= startedAt + effectiveTimeout(lastArg)
  /\ error = NoError

(***************************************************************************)
(* The onmessage property, and the probes as inbound payloads              *)
(***************************************************************************)
\* C29: after a request was torn down, the onmessage property of a host
\* object without addEventListener holds what the host kept there before
\* the request, never a handler of the engine.
C29_OnmessageIsRestored ==
  TornDown =>
    /\ host.flutter = "onmessage" => flutterOnmessage = host.onmessage
    /\ host.channel = "onmessage" => channelOnmessage = host.onmessage

ProbeEnvelopes == {UserInfoProbe, UserIdProbe, WebkitProbe, NativeProbe, WindowProbe}
Reflected == ProbeEnvelopes \cup {Json(p) : p \in ProbeEnvelopes} \cup {Str("getUser")}

ReflectedIntoProbe ==
  /\ host.flutterReply \in Reflected
  /\ \E i \in 1..Len(events) : events[i].op = "recv" /\ events[i].ch = "flutter"

\* C30: an envelope the request itself sends, arriving on any channel as an
\* object or as text, is not accepted and changes nothing; a host that
\* reflects the flutterObject probe from inside the send leaves the request
\* open.
C30_OwnProbesAreNotAccepted ==
  /\ \A ch \in Channels, p \in Reflected :
       Listening(ch) => [Sent(ch, p) EXCEPT !.log = <<>>] = St
  /\ ReflectedIntoProbe /\ "getUser" \notin host.bridges => Accepts(events) = {}

C30_Witness ==
  /\ ReflectedIntoProbe
  /\ phase = "open"
  /\ user = Null
  /\ \E i \in 1..Len(events) : events[i].op = "probe" /\ events[i].ch = "window"
  /\ Listening("message")

(***************************************************************************)
(* loginWithTownPass                                                       *)
(***************************************************************************)
\* The state the hook is in when the answer res to the POST f is there.
Answered(f, res) == loginAnswered(St, f, res)

Reported(f, res) ==
  /\ Answered(f, res).isAuthenticated <=> (~res.failed /\ ok(res) /\ res.json # Throws)
  /\ Answered(f, res).isAuthenticated =>
       ~settled(res).rejected /\ settled(res).value = res.json
  /\ ~Answered(f, res).isAuthenticated =>
       /\ settled(res).rejected
       /\ ~Answered(f, res).isLoading
       /\ Answered(f, res).error = settled(res).value.s

StatusAndText(res) == "Backend auth failed " \o ToString(res.status) \o " " \o res.text

\* C24: after a loginWithTownPass call has settled, isAuthenticated is true
\* exactly if the backend answered 2xx with a JSON body, which the call
\* returns; on a non-2xx answer and on a network failure the call rejects
\* with a failure that carries the HTTP status and the body text, and
\* isAuthenticated and isLoading are false and error is the failure message.
C24_FailureCarriesStatus ==
  \A f \in fetches, res \in Responses :
    /\ Reported(f, res)
    /\ (res.failed \/ ~ok(res)) => settled(res).value = Str(StatusAndText(res))

\* C24, amended: as above, but the failure carries status and body text on a
\* non-2xx answer only; on a network failure, and on a 2xx answer whose body
\* is no JSON, the call rejects with the error that fetch or res.json raised.
C24_LoginReportsOutcome ==
  \A f \in fetches, res \in Responses :
    /\ Reported(f, res)
    /\ (~res.failed /\ ~ok(res)) => settled(res).value = Str(StatusAndText(res))
    /\ res.status = 401 => Answered(f, res).error = "Backend auth failed 401 denied"
    /\ res.failed => settled(res).value = Str(NetworkError)
    /\ (~res.failed /\ ok(res) /\ res.json = Throws) => settled(res).value = Str(JsonError)

C24_Witness ==
  /\ error = "Backend auth failed 401 denied"
  /\ ~isAuthenticated
  /\ ~isLoading
  /\ loginCount = 1
  /\ fetches = {}

\* C25: every loginWithTownPass call sends exactly one POST, whether it
\* succeeds or fails; no other step sends one.
C25_OnePostPerCall ==
  /\ [](sent = loginCount)
  /\ [][sent' # sent => (sent' = sent + 1 /\ loginCount' = loginCount + 1
                          /\ reqCount' = reqCount /\ phase' = phase)]_vars

C25_Witness ==
  /\ sent = MaxLogins
  /\ loginCount = MaxLogins
  /\ fetches = {}
  /\ error = "Backend auth failed 401 denied"
  /\ phase = "resolved"

\* C26: the steps of loginWithTownPass (the call and the arrival of the
\* answer) leave user, the timer, the listeners and window.__onTownPassUser
\* as they are, so that an open request keeps its timer and still resolves
\* on an identity.
C26_LoginLeavesRequestAlone ==
  /\ [][fetches' # fetches =>
          UNCHANGED <<user, timerRef, timers, listenerRef, channelListenerRef,
                      messageListeners, customListeners, slot, flutterListeners,
                      flutterOnmessage, channelListeners, channelOnmessage,
                      phase>>]_vars
  /\ [](phase = "open" =>
          /\ \E tm \in timers : tm.id = timerRef /\ tm.req = reqCount
          /\ ResolvedWith(Sent("message", U1), U1))

\* A login was rejected while the request was open: the request has cleared
\* error when it started.
C26_Witness ==
  /\ phase = "open"
  /\ error = "Backend auth failed 401 denied"
  /\ fetches # {}
  /\ timerRef # 0
  /\ user = Null

(***************************************************************************)
(* TownPassDemo                                                            *)
(***************************************************************************)
\* C27: in TownPassDemo the login effect calls loginWithTownPass at most once
\* for an identity it received: after a rejected exchange it does not call
\* again until a request, a delivery or a reset has happened.
C27_NoAutomaticRetry == attempts <= 1

\* C28: a request started by the button of TownPassDemo has its deadline
\* armed at the timeout option of the hook, as the request on mount has.
C28_ButtonUsesTimeoutOption ==
  (phase = "open" /\ lastArg = ClickEvent) =>
    \E tm \in timers : tm.id = timerRef /\ tm.deadline = startedAt + timeoutMs

(***************************************************************************)
(* The probes after the request is resolved, and isLoading                 *)
(***************************************************************************)
\* C31: within one requestTownPassUser call, nothing is sent and no accessor
\* is called after a payload has been accepted.
C31_NoProbeAfterResolve ==
  \A i \in Accepts(events), j \in Tried(events) : j < i

\* C32: isLoading is true in every state in which the deadline timer of an
\* identity request is armed.
C32_LoadingWhileOpen == timerRef # 0 => isLoading

(***************************************************************************)
(* reset and a login in flight                                             *)
(***************************************************************************)
\* C33: when the answer to a POST arrives that was sent before the last
\* reset, isAuthenticated and error stay what they are.
C33_ResetIsFinalForLogin ==
  \A f \in fetches, res \in Responses :
    f.n <= resetAtLogin =>
      /\ Answered(f, res).isAuthenticated = isAuthenticated
      /\ Answered(f, res).error = error

(***************************************************************************)
(* useLocation                                                             *)
(***************************************************************************)
\* C34: the promise of every getLocation call is settled once the 10 s timer
\* of the call has run.
C34_LocationPromiseSettles ==
  \A c \in firedLocation : promises[c] # Pending

\* The getLocation call whose listener is attached waits for its reply.
LocationPending ==
  /\ locationListenerRef # NoFn
  /\ promises[locationListenerRef.req] = Pending
  /\ loading
  /\ locationError = NoError

LocationSent(p) == locationDispatch(Loc, flutterListeners, Obj([data |-> p]))

\* C35: while a getLocation call waits for its reply, a message that is no
\* location reply changes nothing.
C35_OtherMessagesChangeNothing ==
  LocationPending => \A p \in OtherMessages : LocationSent(p) = Loc

\* C36: a getLocation call whose promise is settled has no listener on
\* flutterObject, and neither a message nor its timer changes location,
\* loading or error.
C36_SettledCallIsDetached ==
  \A c \in 1..Len(promises) :
    promises[c] # Pending =>
      /\ ~Contains(flutterListeners, Handler("location", c))
      /\ locationListenerRef # Handler("location", c)

\* C37: when the timer of a getLocation call runs while a later call waits
\* for its reply, nothing changes: the later call keeps its listener, loading
\* stays true and no error is set.
C37_StaleTimerChangesNothing ==
  [][\A c \in firedLocation' \ firedLocation :
       (\E d \in (c + 1)..Len(promises) : promises[d] = Pending)
         => UNCHANGED <<location, loading, locationError, locationListenerRef,
                        flutterListeners, promises>>]_vars

C37_Witness ==
  /\ firedLocation = {1}
  /\ Len(promises) = 2
  /\ promises[2] = Pending
  /\ loading
  /\ locationError = NoError
  /\ locationListenerRef = Handler("location", 2)
  /\ Contains(flutterListeners, Handler("location", 2))

(***************************************************************************)
(* UserProvider                                                            *)
(***************************************************************************)
\* C38: once the fetch effect has run for the current userId and no
\* getUserPet call is pending, pet is null if userId is null, and otherwise
\* pet is null or the pet of userId.
C38_PetBelongsToUser ==
  (petFetches = {} /\ userEffectDeps = userId) =>
    /\ userId = Null => pet = Null
    /\ pet # Null => Get(pet, "user_id") = userId

====
